---- MODULE Spec2Model ----
(***************************************************************************)
(* CloudWise FinOps: the statistical core of the anomaly_detector and      *)
(* reporter agents (CalculateBaseline, DetectSpike, DetectTrendChange,     *)
(* CreateForecast), the decisions of the policy_engine agent               *)
(* (ValidateAction, ApproveAutomation) and the cost cache of the           *)
(* cloud_connector agent (CacheCostSnapshot on the cost_snapshots table).  *)
(* Each tool is a pydantic object whose fields are the                     *)
(* inputs and whose run() returns a string: a JSON document or an error    *)
(* sentence.  The model keeps the decoded JSON instead of the text.        *)
(*                                                                         *)
(* Numbers.  Python floats are modelled as exact rationals <<n, d>> in     *)
(* lowest terms with d > 0; float('inf') is <<1, 0>>.  round(x, k) is      *)
(* round-half-even on the exact value.  math.sqrt (inside                  *)
(* statistics.stdev) is exact on perfect squares and otherwise truncated   *)
(* to 1/SqrtScale.                                                         *)
(***************************************************************************)
EXTENDS Integers, Sequences, FiniteSets, TLC

VARIABLES
    created,                    \* the tool objects that have been constructed
    cost_history,               \* CalculateBaseline.cost_history (decoded JSON text)
    window_days,                \* CalculateBaseline.window_days
    enable_seasonal_adjustment, \* CalculateBaseline.enable_seasonal_adjustment
    baseline_result,            \* what CalculateBaseline.run() returned
    current_value,              \* DetectSpike.current_value
    baseline,                   \* DetectSpike.baseline (decoded JSON text)
    threshold_percent,          \* DetectSpike.threshold_percent
    z_score_threshold,          \* DetectSpike.z_score_threshold
    spike_result,               \* what DetectSpike.run() returned
    trend_cost_history,         \* DetectTrendChange.cost_history (decoded JSON text)
    lookback_days,              \* DetectTrendChange.lookback_days
    min_slope_threshold,        \* DetectTrendChange.min_slope_threshold
    trend_result,               \* what DetectTrendChange.run() returned
    historical_data,            \* CreateForecast.historical_data (decoded JSON text)
    forecast_days,              \* CreateForecast.forecast_days
    confidence_level,           \* CreateForecast.confidence_level
    forecast_result,            \* what CreateForecast.run() returned
    action_type,                \* ValidateAction.action_type
    target_resource,            \* ValidateAction.target_resource (decoded JSON text)
    policies,                   \* ValidateAction.policies (decoded JSON text)
    validate_result,            \* what ValidateAction.run() returned
    action,                     \* ApproveAutomation.action (decoded JSON text)
    risk_level,                 \* ApproveAutomation.risk_level
    auto_approve_threshold,     \* ApproveAutomation.auto_approve_threshold
    approve_result,             \* what ApproveAutomation.run() returned
    normalized_data,            \* CacheCostSnapshot.normalized_data (decoded JSON text)
    cache_key,                  \* CacheCostSnapshot.cache_key
    ttl_hours,                  \* CacheCostSnapshot.ttl_hours
    cache_result,               \* what CacheCostSnapshot.run() returned
    cost_snapshots,             \* the rows of table cost_snapshots in cost_cache.db
    last_rowid,                 \* the largest id the table has handed out
    clock                       \* datetime.now(), in hours

baseline_vars == <<cost_history, window_days, enable_seasonal_adjustment, baseline_result>>

spike_vars == <<current_value, baseline, threshold_percent, z_score_threshold, spike_result>>

trend_vars == <<trend_cost_history, lookback_days, min_slope_threshold, trend_result>>

forecast_vars == <<historical_data, forecast_days, confidence_level, forecast_result>>

policy_vars ==
    <<action_type, target_resource, policies, validate_result,
      action, risk_level, auto_approve_threshold, approve_result>>

cache_vars ==
    <<normalized_data, cache_key, ttl_hours, cache_result, cost_snapshots, last_rowid,
      clock>>

vars ==
    <<created, baseline_vars, spike_vars, trend_vars, forecast_vars, policy_vars,
      cache_vars>>

----------------------------------------------------------------------------
(* Exact rational arithmetic standing for Python float arithmetic.         *)

Abs(i) == IF i < 0 THEN -i ELSE i

RECURSIVE GCD(_, _)
GCD(a, b) == IF b = 0 THEN a ELSE GCD(b, a % b)

\* the float n/d, in lowest terms
Q(n, d) ==
    LET g == GCD(Abs(n), Abs(d))
    IN  IF d < 0 THEN <<(-n) \div g, (-d) \div g>> ELSE <<n \div g, d \div g>>

I(n) == <<n, 1>>

Inf == <<1, 0>>             \* float('inf')

IsInf(a) == a[2] = 0

RNeg(a) == <<-a[1], a[2]>>

RAbs(a) == <<Abs(a[1]), a[2]>>

RAdd(a, b) ==
    IF IsInf(a) \/ IsInf(b) THEN Inf
    ELSE LET g == GCD(a[2], b[2])
         IN  Q(a[1] * (b[2] \div g) + b[1] * (a[2] \div g), (a[2] \div g) * b[2])

RSub(a, b) == RAdd(a, RNeg(b))

RMul(a, b) ==
    IF IsInf(a) \/ IsInf(b) THEN Inf
    ELSE LET g1 == GCD(Abs(a[1]), b[2])
             g2 == GCD(Abs(b[1]), a[2])
         IN  Q((a[1] \div g1) * (b[1] \div g2), (a[2] \div g2) * (b[2] \div g1))

\* a / b for b # 0 (the callers guard b = 0 as the code does)
RDiv(a, b) ==
    IF IsInf(a) THEN Inf
    ELSE RMul(a, IF b[1] < 0 THEN <<-b[2], -b[1]>> ELSE <<b[2], b[1]>>)

RLt(a, b) == a[1] * b[2] < b[1] * a[2]

RLe(a, b) == a[1] * b[2] <= b[1] * a[2]

RGt(a, b) == RLt(b, a)

RGe(a, b) == RLe(b, a)

RMin(a, b) == IF RLe(a, b) THEN a ELSE b

RMax(a, b) == IF RGe(a, b) THEN a ELSE b

RECURSIVE Pow10(_)
Pow10(k) == IF k = 0 THEN 1 ELSE 10 * Pow10(k - 1)

\* Python round(x, ndigits): round-half-even; round(inf, k) is inf
Round(a, ndigits) ==
    IF IsInf(a) THEN Inf
    ELSE LET s     == Pow10(ndigits)
             whole == a[1] \div a[2]
             frac  == (a[1] % a[2]) * s
             f     == whole * s + frac \div a[2]
             r2    == 2 * (frac % a[2])
             k     == IF r2 < a[2] THEN f
                      ELSE IF r2 > a[2] THEN f + 1
                      ELSE IF f % 2 = 0 THEN f ELSE f + 1
         IN  Q(k, s)

SqrtScale == 1000

\* the scale for radicands of 2000 and more, whose square root has fewer
\* decimals left to show
CoarseSqrtScale == 100

\* floor(sqrt(m)) for an integer m >= 0, by bisection on lo..hi
RECURSIVE ISqrtIn(_, _, _)
ISqrtIn(m, lo, hi) ==
    IF lo >= hi THEN lo
    ELSE LET mid == (lo + hi + 1) \div 2
         IN  IF mid * mid <= m THEN ISqrtIn(m, mid, hi) ELSE ISqrtIn(m, lo, mid - 1)

ISqrt(m) == ISqrtIn(m, 0, 46340)

\* math.sqrt: exact on perfect squares, else truncated to 1/SqrtScale
\* (1/CoarseSqrtScale from 2000 on)
Sqrt(a) ==
    LET rn == ISqrt(a[1])
        rd == ISqrt(a[2])
    IN  IF rn * rn = a[1] /\ rd * rd = a[2] THEN Q(rn, rd)
        ELSE LET whole == a[1] \div a[2]
                 frac  == a[1] % a[2]
                 scale == IF whole < 2000 THEN SqrtScale ELSE CoarseSqrtScale
                 s2    == scale * scale
                 m     == whole * s2 + (frac * s2) \div a[2]
             IN  Q(ISqrt(m), scale)

\* xs[lo] + ... + xs[hi]; exact addition is associative, so the halves may
\* be added separately
RECURSIVE RSumRange(_, _, _)
RSumRange(xs, lo, hi) ==
    IF lo > hi THEN I(0)
    ELSE IF lo = hi THEN xs[lo]
    ELSE LET mid == (lo + hi) \div 2
         IN  RAdd(RSumRange(xs, lo, mid), RSumRange(xs, mid + 1, hi))

\* sum(xs)
RSum(xs) == RSumRange(xs, 1, Len(xs))

\* Python computes the value of an assignment where the statement stands; TLC
\* computes an operator's argument only where it is first read, nested in
\* whatever reads it.  Given(<<a, b>>, rest) computes the arguments a, then
\* b, here, and then is `rest`: the statements that follow their assignment.
Given(values, rest) == IF values = values THEN rest ELSE rest

\* statistics.mean(xs), xs not empty
Mean(xs) == RDiv(RSum(xs), I(Len(xs)))

\* sum((x - c) ** 2 for x in xs)
SumSq(xs, c) ==
    Given(c, RSum([k \in 1..Len(xs) |-> LET dx == RSub(xs[k], c) IN RMul(dx, dx)]))

\* statistics.stdev(xs), at least two values: sample deviation, N - 1
Stdev(xs) == Sqrt(RDiv(SumSq(xs, Mean(xs)), I(Len(xs) - 1)))

----------------------------------------------------------------------------
(* DetectSpike                                                             *)

NoResult == [status |-> "none"]

\* run() returned an "Error: ..." sentence
Error(what) == [status |-> "error", error |-> what]

\* run() did not return: the exception left run()
Raised(what) == [status |-> "raised", error |-> what]

\* Step 4: (deviation_percent, is_spike_threshold)
PercentTest(cur, mean, thr) ==
    IF mean = I(0)
    THEN IF RGt(cur, I(0))
         THEN [deviation_percent |-> I(100), exceeded |-> TRUE]
         ELSE [deviation_percent |-> I(0), exceeded |-> FALSE]
    ELSE LET dev == RMul(RDiv(RSub(cur, mean), mean), I(100))
         IN  [deviation_percent |-> dev, exceeded |-> RGt(dev, thr)]

\* the zero-deviation branch without its equality test
ZScoreAlwaysInf(cur, mean, std) ==
    IF std = I(0) THEN Inf ELSE RDiv(RSub(cur, mean), std)

\* Step 5: z_score
ZScore(cur, mean, std) ==
    IF std = I(0)
    THEN IF cur = mean THEN I(0) ELSE Inf
    ELSE RDiv(RSub(cur, mean), std)

\* the comparison of Step 5 turned round
ZTestFlipped(z, zthr) == RLt(z, zthr)

\* is_spike_zscore
ZTest(z, zthr) == RGt(z, zthr)

\* the ladder with its bounds excluded
SeverityBelowBounds(dev) ==
    IF RLt(dev, I(20)) THEN "NONE"
    ELSE IF RLt(dev, I(35)) THEN "LOW"
    ELSE IF RLt(dev, I(50)) THEN "MEDIUM"
    ELSE IF RLt(dev, I(100)) THEN "HIGH"
    ELSE "CRITICAL"

\* Step 7: severity ladder
Severity(dev) ==
    IF RLe(dev, I(20)) THEN "NONE"
    ELSE IF RLe(dev, I(35)) THEN "LOW"
    ELSE IF RLe(dev, I(50)) THEN "MEDIUM"
    ELSE IF RLe(dev, I(100)) THEN "HIGH"
    ELSE "CRITICAL"

\* TriggerAlert.run() Step 2: the severities an alert may carry
valid_severities == {"LOW", "MEDIUM", "HIGH", "CRITICAL"}

\* Step 8: confidence
Confidence(z, dev, thr, zthr) ==
    LET z_score_confidence   == RMin(I(100), RMul(RDiv(RAbs(z), zthr), I(50)))
        threshold_confidence == RMin(I(100), RMul(RDiv(dev, thr), I(50)))
    IN  Round(RDiv(RAdd(z_score_confidence, threshold_confidence), I(2)), 1)

\* Step 9: lower <= current_value <= upper with the .get() defaults
Within(cur, b, level) ==
    LET lower == IF b.has_ci THEN b.ci[level].lower ELSE I(0)
        upper == IF b.has_ci THEN b.ci[level].upper ELSE Inf
    IN  RLe(lower, cur) /\ RLe(cur, upper)

\* DetectSpike.run()
DetectSpike(cur, b, thr, zthr) ==
    IF RLt(cur, I(0)) THEN Error("current_value cannot be negative")
    ELSE IF b.kind = "invalid" THEN Error("Invalid JSON in baseline parameter")
    ELSE IF b.kind = "scalar" THEN Raised("TypeError")
    ELSE IF ~b.has_mean \/ ~b.has_std THEN Error("baseline must contain fields")
    ELSE IF RLe(thr, I(0)) THEN Error("threshold_percent must be greater than zero")
    ELSE IF RLe(zthr, I(0)) THEN Error("z_score_threshold must be greater than zero")
    ELSE LET mean == b.baseline_mean
             std  == b.std_deviation
             pt   == PercentTest(cur, mean, thr)
             z    == ZScore(cur, mean, std)
             zt   == ZTest(z, zthr)
         IN  [status            |-> "ok",
              is_spike          |-> pt.exceeded /\ zt,
              deviation_percent |-> Round(pt.deviation_percent, 2),
              z_score           |-> Round(z, 2),
              severity          |-> Severity(pt.deviation_percent),
              confidence        |-> Confidence(z, pt.deviation_percent, thr, zthr),
              percent_exceeded  |-> pt.exceeded,
              z_score_exceeded  |-> zt,
              within_95_percent |-> Within(cur, b, "95_percent"),
              within_99_percent |-> Within(cur, b, "99_percent")]

----------------------------------------------------------------------------
(* The cost history: a JSON array whose elements should be records         *)
(* {"date": "YYYY-MM-DD", "cost": number}.  A date that strptime accepts   *)
(* is kept as its day number (day 0 is a Monday).                          *)

\* {"date": ..., "cost": ...} with a parseable date and a numeric cost
Point(day, cost) ==
    [type |-> "object", has_cost |-> TRUE, has_date |-> TRUE,
     cost |-> [t |-> "number", v |-> cost], date |-> [t |-> "date", day |-> day]]

\* how the loop body treats one element of the array:
\*   "fatal": `"cost" not in entry` raises TypeError outside the inner try
\*            (a number, null, true/false)
\*   "skip":  continue, from the key test or the inner except
\*   "valid": appended
EntryOutcome(e) ==
    IF e.type = "scalar" THEN "fatal"
    ELSE IF e.type = "string" THEN "skip"
    ELSE IF ~e.has_cost \/ ~e.has_date THEN "skip"
    ELSE IF e.cost.t # "number" THEN "skip"
    ELSE IF e.date.t # "date" THEN "skip"
    ELSE "valid"

\* the validation loop: the appended (date, cost) pairs in array order, and
\* whether the loop was left by an exception
Extract(items) ==
    LET kept  == SelectSeq(items, LAMBDA e : EntryOutcome(e) = "valid")
        fatal == \E k \in 1..Len(items) : EntryOutcome(items[k]) = "fatal"
    IN  [fatal  |-> fatal,
         points |-> IF fatal THEN <<>>
                    ELSE [k \in 1..Len(kept) |->
                            [date |-> kept[k].date.day, cost |-> kept[k].cost.v]]]

\* xs[-k:] for k >= 1
LastK(xs, k) == IF k >= Len(xs) THEN xs ELSE SubSeq(xs, Len(xs) - k + 1, Len(xs))

Costs(points) == [k \in 1..Len(points) |-> points[k].cost]

----------------------------------------------------------------------------
(* CalculateBaseline                                                       *)

MinBaselinePoints == 14

MinWindowDays == 7

\* the value run() leaves in self.window_days (Step 2)
ClampedWindow(history, window) ==
    IF history.kind # "array" THEN window
    ELSE IF Len(history.items) < MinBaselinePoints THEN window
    ELSE IF window < MinWindowDays THEN window
    ELSE IF window > Len(history.items) THEN Len(history.items)
    ELSE window

\* Step 4: the observations the statistics are computed on
BaselineWindow(history, window) ==
    LastK(Extract(history.items).points, ClampedWindow(history, window))

\* the multipliers filed under the following weekday
SeasonalFactorsShifted(points, mean, enable) ==
    [d \in 0..6 |->
        IF enable /\ Len(points) >= 14
        THEN LET day_costs == SelectSeq(points, LAMBDA p : (p.date + 1) % 7 = d)
             IN  IF day_costs # <<>> /\ RGt(mean, I(0))
                 THEN Round(RDiv(Mean(Costs(day_costs)), mean), 3)
                 ELSE I(1)
        ELSE I(1)]

\* Step 6: day-of-week multipliers, Monday = 0
SeasonalFactors(points, mean, enable) ==
    [d \in 0..6 |->
        IF enable /\ Len(points) >= 14
        THEN LET day_costs == SelectSeq(points, LAMBDA p : p.date % 7 = d)
             IN  IF day_costs # <<>>
                 THEN IF RGt(mean, I(0))
                      THEN Round(RDiv(Mean(Costs(day_costs)), mean), 3)
                      ELSE I(1)
                 ELSE I(1)
        ELSE I(1)]

\* Steps 6-10 for the computed mean and deviation
BaselineReport(points, window, enable, baseline_mean, std_deviation) ==
    Given(<<baseline_mean, std_deviation>>,
        [status        |-> "ok",
         baseline_mean |-> Round(baseline_mean, 2),
         std_deviation |-> Round(std_deviation, 2),
         coefficient_of_variation |->
            Round(IF RGt(baseline_mean, I(0))
                  THEN RMul(RDiv(std_deviation, baseline_mean), I(100))
                  ELSE I(0), 2),
         confidence_intervals |->
            [l \in {"95_percent", "99_percent"} |->
                LET k == IF l = "95_percent" THEN I(2) ELSE I(3)
                IN  [lower |-> Round(RMax(I(0), RSub(baseline_mean, RMul(k, std_deviation))), 2),
                     upper |-> Round(RAdd(baseline_mean, RMul(k, std_deviation)), 2)]],
         seasonal_factors |-> SeasonalFactors(points, baseline_mean, enable),
         sample_size   |-> Len(points),
         window_days   |-> window,
         date_range    |-> <<points[1].date, points[Len(points)].date>>,
         seasonal_adjustment_enabled |-> enable])

\* Steps 5-10 on the window
BaselineStatistics(points, window, enable) ==
    Given(points,
        BaselineReport(points, window, enable, Mean(Costs(points)),
                       IF Len(points) > 1 THEN Stdev(Costs(points)) ELSE I(0)))

\* CalculateBaseline.run()
CalculateBaseline(history, window, enable) ==
    IF history.kind = "invalid" THEN Error("Invalid JSON in cost_history")
    ELSE IF history.kind # "array" THEN Error("cost_history must be JSON array")
    ELSE IF Len(history.items) < MinBaselinePoints THEN Error("Insufficient historical data")
    ELSE IF window < MinWindowDays THEN Error("window_days must be at least 7")
    ELSE LET x == Extract(history.items)
         IN  IF x.fatal THEN Error("Error calculating baseline")
             ELSE IF Len(x.points) < MinBaselinePoints
                  THEN Error("Only N valid cost entries found")
             ELSE BaselineStatistics(BaselineWindow(history, window),
                                     ClampedWindow(history, window), enable)

\* json.loads of the JSON document CalculateBaseline returned, as DetectSpike reads it
BaselineJson(r) ==
    [kind |-> "object", has_mean |-> TRUE, has_std |-> TRUE,
     baseline_mean |-> r.baseline_mean, std_deviation |-> r.std_deviation,
     has_ci |-> TRUE, ci |-> r.confidence_intervals]

----------------------------------------------------------------------------
(* Sorting and the least-squares fit shared by DetectTrendChange and       *)
(* CreateForecast                                                          *)

\* the place of points[k] after list.sort(key=date), which is stable: equal
\* dates keep their array order
Rank(points, k) ==
    Cardinality({ j \in 1..Len(points) :
                    \/ points[j].date < points[k].date
                    \/ points[j].date = points[k].date /\ j < k }) + 1

PlaceByRank(points, rank) ==
    Given(rank, [i \in 1..Len(points) |->
                    points[CHOOSE k \in 1..Len(points) : rank[k] = i]])

SortByDate(points) ==
    Given(points, PlaceByRank(points, [k \in 1..Len(points) |-> Rank(points, k)]))

\* list(range(n)) as floats
XValues(n) == [k \in 1..n |-> I(k - 1)]

\* the unexplained share in the place of R squared
RSquaredUnexplained(ss_total, ss_residual) ==
    IF ss_total = I(0) THEN I(0) ELSE RDiv(ss_residual, ss_total)

\* Step 6: R squared
RSquared(ss_total, ss_residual) ==
    IF ss_total = I(0) THEN I(0) ELSE RSub(I(1), RDiv(ss_residual, ss_total))

\* Step 6 for a computed slope and intercept
FitWithRSquared(x_values, y_values, mean_y, slope, intercept) ==
    Given(<<slope, intercept>>,
        [degenerate |-> FALSE,
         slope      |-> slope,
         intercept  |-> intercept,
         r_squared  |->
            RSquared(SumSq(y_values, mean_y),
                     RSum([k \in 1..Len(y_values) |->
                            LET d == RSub(y_values[k],
                                          RAdd(RMul(slope, x_values[k]), intercept))
                            IN  RMul(d, d)]))])

\* the `denominator == 0` return, else slope and intercept
FitFromSums(x_values, y_values, mean_x, mean_y, numerator, denominator) ==
    Given(<<numerator, denominator>>,
        IF denominator = I(0) THEN [degenerate |-> TRUE]
        ELSE FitWithRSquared(x_values, y_values, mean_y,
                             RDiv(numerator, denominator),
                             RSub(mean_y, RMul(RDiv(numerator, denominator), mean_x))))

\* numerator and denominator about the two means
FitAboutMeans(x_values, y_values, mean_x, mean_y) ==
    Given(<<mean_x, mean_y>>,
        FitFromSums(x_values, y_values, mean_x, mean_y,
                    RSum([k \in 1..Len(y_values) |->
                            RMul(RSub(x_values[k], mean_x), RSub(y_values[k], mean_y))]),
                    SumSq(x_values, mean_x)))

\* y = slope * x + intercept over x = 0 .. n-1, and R squared
LinearFit(y_values) ==
    Given(y_values,
        FitAboutMeans(XValues(Len(y_values)), y_values,
                      Mean(XValues(Len(y_values))), Mean(y_values)))

----------------------------------------------------------------------------
(* DetectTrendChange                                                       *)

MinTrendPoints == 7

MinLookbackDays == 7

\* Steps 3-4: the observations the regression runs on
TrendData(history, lookback) ==
    LET data_points   == SortByDate(Extract(history.items).points)
        lookback_data == LastK(data_points, lookback)
    IN  IF Len(lookback_data) < 7 THEN data_points ELSE lookback_data

\* Step 7
TrendDirection(slope, min_slope) ==
    IF RLt(RAbs(slope), min_slope) THEN "stable"
    ELSE IF RGt(slope, I(0)) THEN "increasing"
    ELSE "decreasing"

\* the significance test without its $100/month impact clause
IsSignificantWithoutImpact(r_squared, slope, min_slope) ==
    /\ RGt(r_squared, Q(1, 2))
    /\ RGe(RAbs(slope), min_slope)

\* Step 9: is_significant
IsSignificant(r_squared, slope, min_slope) ==
    /\ RGt(r_squared, Q(1, 2))
    /\ RGe(RAbs(slope), min_slope)
    /\ RGt(RAbs(RMul(slope, I(30))), I(100))

\* Steps 7-11 for the fitted line
TrendReport(lookback_data, min_slope, fit) ==
    IF fit.degenerate THEN Error("Cannot calculate trend - all dates are identical")
    ELSE LET n     == Len(lookback_data)
             slope == fit.slope
             is_significant == IsSignificant(fit.r_squared, slope, min_slope)
             confidence ==
                Round(RAdd(RMul(fit.r_squared, I(70)),
                           RMin(I(30), RMul(Q(n, 14), I(30)))), 1)
         IN  [status          |-> "ok",
              trend_direction |-> TrendDirection(slope, min_slope),
              slope           |-> Round(slope, 2),
              intercept       |-> Round(fit.intercept, 2),
              r_squared       |-> Round(fit.r_squared, 3),
              is_significant  |-> is_significant,
              confidence      |-> confidence,
              projections     |-> [k \in {7, 30, 90} |-> Round(RMul(slope, I(k)), 2)],
              days_analyzed   |-> n,
              start_date      |-> lookback_data[1].date,
              end_date        |-> lookback_data[n].date,
              start_cost      |-> lookback_data[1].cost,
              end_cost        |-> lookback_data[n].cost]

\* Steps 5-11 on the lookback data
TrendStatistics(lookback_data, min_slope) ==
    Given(lookback_data,
        TrendReport(lookback_data, min_slope, LinearFit(Costs(lookback_data))))

\* DetectTrendChange.run()
DetectTrendChange(history, lookback, min_slope) ==
    IF history.kind = "invalid" THEN Error("Invalid JSON in cost_history")
    ELSE IF history.kind # "array" THEN Error("cost_history must be JSON array")
    ELSE IF Len(history.items) < MinTrendPoints
         THEN Error("Insufficient data for trend analysis")
    ELSE IF lookback < MinLookbackDays THEN Error("lookback_days must be at least 7")
    ELSE IF RLt(min_slope, I(0)) THEN Error("min_slope_threshold must be positive")
    ELSE LET x == Extract(history.items)
         IN  IF x.fatal THEN Error("Error detecting trend change")
             ELSE IF Len(x.points) < MinTrendPoints
                  THEN Error("Only N valid cost entries found")
             ELSE TrendStatistics(TrendData(history, lookback), min_slope)

----------------------------------------------------------------------------
(* CreateForecast                                                          *)

MinForecastPoints == 30

MaxForecastDays == 90

ValidConfidenceLevels == {Q(80, 100), Q(90, 100), Q(95, 100), Q(99, 100)}

\* z_scores[confidence_level]
ZLookup(level) ==
    CASE level = Q(80, 100) -> Q(128, 100)
      [] level = Q(90, 100) -> Q(1645, 1000)
      [] level = Q(95, 100) -> Q(196, 100)
      [] level = Q(99, 100) -> Q(2576, 1000)

\* Step 3 and the sort: the observations the forecast is fitted on
ForecastData(history) == SortByDate(Extract(history.items).points)

\* Step 7: interval_width for one day offset
IntervalWidth(z_score, std_dev, day) ==
    RMul(RMul(z_score, std_dev), RAdd(I(1), Q(day, 30)))

\* Step 7: the forecast for one day offset
ForecastPoint(fit, n, last_date, z_score, std_dev, day) ==
    LET point_forecast == RAdd(RMul(fit.slope, I(n + day - 1)), fit.intercept)
        interval_width == IntervalWidth(z_score, std_dev, day)
    IN  [date          |-> last_date + day,
         day_offset    |-> day,
         forecast_cost |-> Round(point_forecast, 2),
         lower         |-> Round(RMax(I(0), RSub(point_forecast, interval_width)), 2),
         upper         |-> Round(RAdd(point_forecast, interval_width), 2)]

\* Step 9
ForecastDirection(slope, mean_cost) ==
    IF RLt(RAbs(slope), RMul(mean_cost, Q(1, 100))) THEN "stable"
    ELSE IF RGt(slope, I(0)) THEN "increasing"
    ELSE "decreasing"

\* Step 10: the advisory flags
RiskFactors(r_squared, n, std_dev, mean_cost, slope) ==
    (IF RLt(r_squared, Q(1, 2)) THEN {"low_r_squared"} ELSE {})
    \cup (IF n < 60 THEN {"limited_history"} ELSE {})
    \cup (IF RGt(RDiv(std_dev, mean_cost), Q(3, 10)) THEN {"high_volatility"} ELSE {})
    \cup (IF RGt(RAbs(slope), RMul(mean_cost, Q(5, 100))) THEN {"rapid_trend"} ELSE {})

\* Steps 8-11 for the computed forecasts
ForecastReport(data_points, days, mean_cost, std_dev, fit, forecasts, total_forecasted_cost) ==
    Given(<<forecasts, total_forecasted_cost>>,
        \* std_dev / mean_cost raises ZeroDivisionError, caught by the outer
        \* except
        IF mean_cost = I(0) THEN Error("Error creating forecast")
        ELSE [status          |-> "ok",
              total_forecasted_cost |-> Round(total_forecasted_cost, 2),
              avg_daily_forecast    |-> Round(RDiv(total_forecasted_cost, I(days)), 2),
              days_analyzed   |-> Len(data_points),
              avg_daily_cost  |-> Round(mean_cost, 2),
              std_deviation   |-> Round(std_dev, 2),
              date_range      |-> <<data_points[1].date,
                                    data_points[Len(data_points)].date>>,
              daily_change_rate |-> Round(fit.slope, 2),
              direction       |-> ForecastDirection(fit.slope, mean_cost),
              strength        |-> IF RGt(fit.r_squared, Q(7, 10)) THEN "strong"
                                  ELSE IF RGt(fit.r_squared, Q(4, 10)) THEN "moderate"
                                  ELSE "weak",
              r_squared       |-> Round(fit.r_squared, 3),
              forecasts       |-> SubSeq(forecasts, 1, IF days < 7 THEN days ELSE 7),
              risk_factors    |-> RiskFactors(fit.r_squared, Len(data_points), std_dev,
                                              mean_cost, fit.slope)])

\* Steps 5-7 for the computed mean and deviation
ForecastFromFit(data_points, days, level, mean_cost, std_dev, fit) ==
    Given(<<mean_cost, std_dev, fit>>,
        IF fit.degenerate THEN Error("Cannot calculate trend - insufficient variance")
        ELSE ForecastReport(data_points, days, mean_cost, std_dev, fit,
                [day \in 1..days |->
                    ForecastPoint(fit, Len(data_points),
                                  data_points[Len(data_points)].date,
                                  ZLookup(level), std_dev, day)],
                RSum([day \in 1..days |->
                    ForecastPoint(fit, Len(data_points),
                                  data_points[Len(data_points)].date,
                                  ZLookup(level), std_dev, day).forecast_cost])))

\* Steps 4-11 on the sorted observations
ForecastStatistics(data_points, days, level) ==
    Given(data_points,
        ForecastFromFit(data_points, days, level, Mean(Costs(data_points)),
                        IF Len(data_points) > 1 THEN Stdev(Costs(data_points)) ELSE I(0),
                        LinearFit(Costs(data_points))))

\* CreateForecast.run()
CreateForecast(history, days, level) ==
    IF days < 1 THEN Error("forecast_days must be at least 1")
    ELSE IF days > MaxForecastDays THEN Error("Warning: forecast_days > 90")
    ELSE IF level \notin ValidConfidenceLevels THEN Error("Invalid confidence_level")
    ELSE IF history.kind = "invalid" THEN Error("Invalid JSON in historical_data")
    ELSE IF history.kind # "array" THEN Error("historical_data must be JSON array")
    ELSE IF Len(history.items) < MinForecastPoints
         THEN Error("Insufficient historical data")
    ELSE LET x == Extract(history.items)
         IN  IF x.fatal THEN Error("Error creating forecast")
             ELSE IF Len(x.points) < MinForecastPoints
                  THEN Error("Only N valid data points after validation")
             ELSE ForecastStatistics(ForecastData(history), days, level)

----------------------------------------------------------------------------
(* The policy_engine tools, ValidateAction and ApproveAutomation.  A JSON  *)
(* object is a record that carries in `keys` the members it has; a member  *)
(* outside `keys` holds a filler that is never read.  A dict of tags is a  *)
(* set of <<key, value>> pairs, a list that is only searched is a set, and *)
(* dollar amounts are whole dollars.  A violation message is kept as the   *)
(* rule and the tag it is about.                                           *)

\* dict.get(key, default)
Get(obj, key, default) == IF key \in obj.keys THEN obj[key] ELSE default

\* str.lower() on the tag keys and values in use
Lower(s) ==
    CASE s = "Critical" -> "critical"
      [] s = "TRUE"     -> "true"
      [] OTHER          -> s

\* ValidateAction.run() Step 1
valid_actions ==
    {"terminate_instance", "delete_resource", "downsize", "upsize", "stop_instance",
     "start_instance", "migrate", "modify_tags", "change_configuration",
     "create_resource"}

\* _assess_action_risk
AssessActionRisk(atype, cost) ==
    IF atype \in {"terminate_instance", "delete_resource", "migrate"} \/ cost > 1000
        THEN "HIGH"
    ELSE IF atype \in {"downsize", "stop_instance", "change_configuration"} \/ cost > 100
        THEN "MEDIUM"
    ELSE "LOW"

\* _check_resource_protection: the first protected tag, if any (tags are
\* visited in the order of their keys here)
CheckResourceProtection(tags) ==
    LET hits == { t \in tags :
                    \/ Lower(t[1]) \in {"critical", "protected", "do-not-delete",
                                        "production-critical"}
                    \/ Lower(t[2]) \in {"true", "critical", "protected"} }
    IN  IF hits = {} THEN [is_protected |-> FALSE, violations |-> <<>>]
        ELSE [is_protected |-> TRUE,
              violations   |-> <<[rule |-> "protected_tag",
                                  tag  |-> (CHOOSE t \in hits : TRUE)[1]]>>]

\* _check_approval_requirements: the loop over the approval policies
PolicyApprovalRequirements(atype, risk, cost, env, approval_policies) ==
    LET applies(k) ==
            LET policy_actions == Get(approval_policies[k], "actions", {})
                policy_env     == Get(approval_policies[k], "environments", {"all"})
            IN  /\ atype \in policy_actions \/ "all" \in policy_actions
                /\ env \in policy_env \/ "all" \in policy_env
        matching == { k \in DOMAIN approval_policies : applies(k) }
        last     == CHOOSE k \in matching : \A j \in matching : j <= k
        level(k) == Get(approval_policies[k], "approval_level", "manager")
        approver(k) ==
            CASE level(k) = "manager"  -> {"Team Manager"}
              [] level(k) = "director" -> {"Engineering Director"}
              [] level(k) = "cfo"      -> {"CFO"}
              [] OTHER                 -> {}
    IN  [requires_approval    |-> matching # {},
         required_approvers   |-> UNION { approver(k) : k \in matching },
         approval_level       |-> IF matching = {} THEN "none" ELSE level(last),
         can_proceed_with_approval |-> TRUE,
         waiting_period_hours |->
            IF matching = {} THEN 0
            ELSE Get(approval_policies[last], "waiting_period_hours", 0)]

\* the approval requirements without the risk-based one
CheckApprovalRequirementsByPolicyOnly(atype, risk, cost, env, approval_policies) ==
    PolicyApprovalRequirements(atype, risk, cost, env, approval_policies)

\* _check_approval_requirements
CheckApprovalRequirements(atype, risk, cost, env, approval_policies) ==
    LET by_policy  == PolicyApprovalRequirements(atype, risk, cost, env,
                                                 approval_policies)
        risk_based == /\ risk = "HIGH"
                      /\ "Engineering Director" \notin by_policy.required_approvers
    IN  IF risk_based
        THEN [by_policy EXCEPT !.requires_approval = TRUE,
                               !.required_approvers = @ \cup {"Engineering Director"},
                               !.approval_level = "director"]
        ELSE by_policy

\* _check_automation_policies: the first risk level of the first policy
\* that names this risk level and this action.  A risk level given as a
\* plain list of actions is a config without "approval_required".
CheckAutomationPolicies(atype, risk, automation_policies) ==
    LET upper(level) ==
            CASE level = "high" -> "HIGH" [] level = "medium" -> "MEDIUM"
              [] level = "low" -> "LOW" [] OTHER -> level
        action_category ==
            CASE atype = "terminate_instance"   -> "terminate"
              [] atype = "delete_resource"      -> "delete"
              [] atype = "stop_instance"        -> "stop"
              [] atype = "start_instance"       -> "start"
              [] atype = "modify_tags"          -> "modify"
              [] atype = "change_configuration" -> "change"
              [] atype = "create_resource"      -> "create"
              [] OTHER                          -> atype
        config(m) == automation_policies[m[1]].risk_levels[m[2]]
        matches ==
            { m \in UNION { { <<p, l>> : l \in DOMAIN automation_policies[p].risk_levels } :
                            p \in DOMAIN automation_policies } :
                /\ upper(config(m).level) = risk
                /\ action_category \in config(m).actions \/ atype \in config(m).actions }
        first == CHOOSE m \in matches :
                    \A o \in matches : m[1] < o[1] \/ (m[1] = o[1] /\ m[2] <= o[2])
    IN  IF matches = {} THEN [can_automate |-> FALSE, requires_approval |-> TRUE]
        ELSE [can_automate      |-> ~Get(config(first), "approval_required", FALSE),
              requires_approval |-> Get(config(first), "approval_required", FALSE)]

\* _check_compliance: one violation for each required tag that is missing
\* or empty
CheckCompliance(resource, compliance_policies) ==
    LET resource_tags == Get(resource, "tags", {})
        missing(tag)  == \A t \in resource_tags : t[1] = tag => t[2] = ""
        violation(tag) == [rule |-> "missing_required_tag", tag |-> tag]
        of_policy(k) ==
            IF Get(compliance_policies[k], "rule", "") = "all_resources_must_have_tags"
            THEN LET required_tags == Get(compliance_policies[k], "required_tags", <<>>)
                     absent == SelectSeq(required_tags, missing)
                 IN  [i \in 1..Len(absent) |-> violation(absent[i])]
            ELSE <<>>
        RECURSIVE from(_)
        from(k) == IF k > Len(compliance_policies) THEN <<>>
                   ELSE of_policy(k) \o from(k + 1)
    IN  [is_compliant |-> from(1) = <<>>, violations |-> from(1)]

\* _build_blocked_response
BuildBlockedResponse(protection_status) ==
    [status          |-> "ok",
     is_valid        |-> FALSE,
     approval_status |-> "blocked",
     risk_level      |-> "HIGH",
     has_details     |-> FALSE,
     requires_approval  |-> FALSE,
     required_approvers |-> {},
     violations      |-> protection_status.violations]

\* Steps 9-10: the aggregate and the result document
ValidationReport(risk, protection_status, approval_result, automation_result, compliance_result) ==
    [status          |-> "ok",
     is_valid        |->
        /\ ~protection_status.is_protected
        /\ compliance_result.is_compliant
        /\ \/ automation_result.can_automate
           \/ approval_result.can_proceed_with_approval,
     approval_status |->
        IF protection_status.is_protected THEN "blocked"
        ELSE IF automation_result.can_automate /\ ~approval_result.requires_approval
             THEN "auto_approved"
        ELSE IF approval_result.requires_approval THEN "requires_approval"
        ELSE IF compliance_result.is_compliant THEN "auto_approved"
        ELSE "blocked",
     risk_level      |-> risk,
     has_details     |-> TRUE,
     requires_approval  |-> approval_result.requires_approval,
     required_approvers |-> approval_result.required_approvers,
     violations      |-> protection_status.violations \o
                         (IF compliance_result.is_compliant THEN <<>>
                          ELSE compliance_result.violations)]

\* ValidateAction.run()
ValidateAction(atype, resource, policy_data) ==
    IF atype \notin valid_actions THEN Error("Warning: Unknown action_type")
    ELSE IF resource.kind = "invalid" THEN Error("Invalid JSON in target_resource")
    ELSE IF ~({"resource_id", "resource_type"} \subseteq resource.keys)
         THEN Error("Missing required field in target_resource")
    ELSE IF policy_data.kind = "invalid" THEN Error("Invalid JSON in policies parameter")
    ELSE IF "policies" \notin policy_data.keys
         THEN Error("policies parameter must contain 'policies' object")
    ELSE LET cost == Get(resource, "cost_impact", 0)
             env  == Get(resource, "environment", "unknown")
             risk == AssessActionRisk(atype, cost)
             protection_status == CheckResourceProtection(Get(resource, "tags", {}))
         IN  IF protection_status.is_protected
             THEN BuildBlockedResponse(protection_status)
             ELSE ValidationReport(risk, protection_status,
                    CheckApprovalRequirements(atype, risk, cost, env,
                                              policy_data.policies.approval),
                    CheckAutomationPolicies(atype, risk, policy_data.policies.automation),
                    CheckCompliance(resource, policy_data.policies.compliance))

\* a validation_result member without content
NoValidation ==
    [keys |-> {}, is_valid |-> FALSE, approval_status |-> "", compliance_score |-> 0,
     validation_summary |-> [is_valid |-> FALSE, approval_status |-> "", risk_level |-> ""]]

\* the document ValidateAction returned, as the member "validation_result"
\* of an action
ValidationJson(r) ==
    [NoValidation EXCEPT
        !.keys = {"validation_summary", "violations", "next_steps"} \cup
                 (IF r.has_details
                  THEN {"action_details", "approval_requirements", "policy_checks"}
                  ELSE {}),
        !.validation_summary = [is_valid        |-> r.is_valid,
                                approval_status |-> r.approval_status,
                                risk_level      |-> r.risk_level]]

\* _check_auto_approve_eligibility: can_auto_approve and the rule that
\* decided
CheckAutoApproveEligibility(risk, cost, atype, env, validation_result) ==
    IF risk # "LOW" THEN [can_auto_approve |-> FALSE, rule |-> 1]
    ELSE IF env \in {"production", "prod"} THEN [can_auto_approve |-> FALSE, rule |-> 2]
    ELSE IF atype \in {"terminate_instance", "delete_resource", "delete_volume"}
         THEN [can_auto_approve |-> FALSE, rule |-> 3]
    ELSE IF Get(validation_result, "compliance_score", 100) < 90
         THEN [can_auto_approve |-> FALSE, rule |-> 4]
    ELSE IF atype \in {"modify_tags", "stop_instance", "add_monitoring"} /\ cost = 0
         THEN [can_auto_approve |-> TRUE, rule |-> 5]
    ELSE [can_auto_approve |-> TRUE, rule |-> 6]

\* _create_auto_approval
CreateAutoApproval(rule) ==
    [status |-> "ok", approved |-> TRUE, approval_method |-> "auto", rule |-> rule,
     approvers_required |-> <<>>, approvers_received |-> <<"system_auto_approval">>,
     approval_status |-> "complete"]

\* _create_manual_approval_request
CreateManualApprovalRequest(risk, cost, env) ==
    LET by_risk ==
            IF risk = "LOW" /\ cost < 500 THEN <<"team_lead">>
            ELSE IF risk = "MEDIUM" \/ (risk = "LOW" /\ cost >= 500)
                 THEN <<"engineering_manager">>
            ELSE IF risk = "HIGH" \/ cost >= 1000 THEN <<"engineering_director">>
            ELSE <<"engineering_director", "cfo">>
        in_production ==
            /\ env \in {"production", "prod"}
            /\ \A k \in DOMAIN by_risk : by_risk[k] # "engineering_director"
    IN  [status |-> "ok", approved |-> FALSE, approval_method |-> "manual_required",
         rule |-> 0,
         approvers_required |-> IF in_production
                                THEN Append(by_risk, "engineering_director")
                                ELSE by_risk,
         approvers_received |-> <<>>,
         approval_status |-> "pending"]

\* ApproveAutomation.run(); the approval_timestamp, a reading of the clock,
\* is not kept
ApproveAutomation(action_data, risk, threshold) ==
    IF risk \notin {"LOW", "MEDIUM", "HIGH", "CRITICAL"} THEN Error("Invalid risk_level")
    ELSE IF threshold < 0 THEN Error("auto_approve_threshold cannot be negative")
    ELSE IF action_data.kind = "invalid" THEN Error("Invalid JSON in action parameter")
    ELSE IF ~({"action_type", "resource_id", "cost_impact"} \subseteq action_data.keys)
         THEN Error("Missing required field in action parameter")
    ELSE LET eligibility ==
                CheckAutoApproveEligibility(risk, action_data.cost_impact,
                    action_data.action_type,
                    Get(action_data, "environment", "unknown"),
                    Get(action_data, "validation_result", NoValidation))
         IN  IF eligibility.can_auto_approve /\ action_data.cost_impact <= threshold
             THEN CreateAutoApproval(eligibility.rule)
             ELSE CreateManualApprovalRequest(risk, action_data.cost_impact,
                                              Get(action_data, "environment", "unknown"))

----------------------------------------------------------------------------
(* CacheCostSnapshot and the cost_snapshots table of cost_cache.db.  A row *)
(* keeps the columns the UNIQUE constraint, the cost and the expiry are    *)
(* about; the clock counts hours.                                          *)

\* JSON null, Python None, SQL NULL
Null == "<null>"

\* Step 6, one pass of the loop: INSERT OR REPLACE of one record into
\* db = (rows, last_rowid).  A NULL provider breaks NOT NULL: IntegrityError,
\* the record is skipped.  The new row replaces the rows that collide with
\* it on UNIQUE(cache_key, provider, service, time_period_start), where a
\* NULL collides with nothing.
InsertOrReplace(db, key, record, now, ttl) ==
    LET new == [id                |-> db.last_rowid + 1,
                cache_key         |-> key,
                provider          |-> Get(record, "provider", "unknown"),
                service           |-> Get(record, "service", ""),
                time_period_start |-> Get(record, "time_period_start", ""),
                cost              |-> Get(record, "cost", 0),
                cached_at         |-> now,
                expires_at        |-> now + ttl]
        collides(row) ==
            /\ row.cache_key = new.cache_key
            /\ row.provider = new.provider
            /\ row.service = new.service /\ new.service # Null
            /\ row.time_period_start = new.time_period_start
            /\ new.time_period_start # Null
    IN  IF new.provider = Null THEN [db EXCEPT !.inserted = @ \o <<FALSE>>]
        ELSE [rows       |-> { row \in db.rows : ~collides(row) } \cup {new},
              last_rowid |-> db.last_rowid + 1,
              inserted   |-> db.inserted \o <<TRUE>>]

\* Step 6: the loop over cost_records from record k on
RECURSIVE InsertRecords(_, _, _, _, _, _)
InsertRecords(db, key, cost_records, k, now, ttl) ==
    IF k > Len(cost_records) THEN db
    ELSE InsertRecords(InsertOrReplace(db, key, cost_records[k], now, ttl),
                       key, cost_records, k + 1, now, ttl)

\* CacheCostSnapshot.run() at clock reading `now` on the table db: what it
\* returns and the table it leaves
CacheCostSnapshot(data, key, ttl, db, now) ==
    IF data.kind = "invalid"
        THEN [result |-> Error("Invalid JSON in normalized_data"), db |-> db]
    ELSE IF data.kind # "object" \/ "records" \notin data.keys
        THEN [result |-> Error("normalized_data must be JSON object with 'records' array"),
              db |-> db]
    ELSE IF data.records = <<>>
        THEN [result |-> Error("Warning: No cost records to cache"), db |-> db]
    \* len(self.cache_key) < 3, for the keys in use
    ELSE IF key \in {"", "k"}
        THEN [result |-> Error("cache_key must be at least 3 characters"), db |-> db]
    ELSE LET after == InsertRecords([db EXCEPT !.inserted = <<>>], key, data.records,
                                    1, now, ttl)
             kept  == { k \in DOMAIN after.inserted : after.inserted[k] }
         IN  [result |-> [status         |-> "ok",
                          inserted_count |-> Cardinality(kept),
                          provider       |-> Get(data.records[1], "provider", "unknown"),
                          expires_at     |-> now + ttl],
              db     |-> after]

----------------------------------------------------------------------------
(* Inputs                                                                  *)

MaxJunk == 1        \* malformed elements mixed into one array

MaxExtra == 1       \* elements beyond a tool's minimum

NoHistory == [kind |-> "none", items |-> <<>>]

JsonArray(items) == [kind |-> "array", items |-> items]

NoBaseline == [kind |-> "none"]

NoCi == [l \in {"95_percent", "99_percent"} |-> [lower |-> I(0), upper |-> I(0)]]

\* a baseline JSON object with both statistics
BaselineObject(mean, std, has_ci) ==
    [kind |-> "object", has_mean |-> TRUE, has_std |-> TRUE,
     baseline_mean |-> mean, std_deviation |-> std, has_ci |-> has_ci,
     ci |-> IF has_ci
            THEN [l \in {"95_percent", "99_percent"} |->
                    LET k == IF l = "95_percent" THEN I(2) ELSE I(3)
                    IN  [lower |-> RMax(I(0), RSub(mean, RMul(k, std))),
                         upper |-> RAdd(mean, RMul(k, std))]]
            ELSE NoCi]

MalformedBaselines ==
    { [kind |-> "invalid"], [kind |-> "scalar"],
      [kind |-> "object", has_mean |-> TRUE, has_std |-> FALSE,
       baseline_mean |-> I(100), std_deviation |-> I(0), has_ci |-> FALSE,
       ci |-> NoCi] }

SpikeMeans == {I(-100), I(0), I(100)}

SpikeStds == {I(0), I(10), I(100)}

HandBaselines ==
    { BaselineObject(m, s, c) : m \in SpikeMeans, s \in SpikeStds, c \in BOOLEAN }
        \cup MalformedBaselines

CurrentValues ==
    {I(-1), I(0), Q(1, 1000), Q(187, 100), I(100), I(115), I(120), I(130), I(135),
     I(150), I(200), I(400), I(1000)}

ThresholdPercents == {I(0), I(10), I(20), I(150)}

ZScoreThresholds == {I(0), I(2), I(3)}

DefaultThresholdPercent == I(20)

DefaultZScoreThreshold == I(2)

\* the malformed elements: an object without "cost", a cost that float()
\* rejects, a date that strptime rejects, a string, and a number or null
JunkKinds == {"missing_field", "non_numeric_cost", "bad_date", "string_element",
              "scalar_element"}

Malformed(kind) ==
    [type     |-> CASE kind = "string_element" -> "string"
                    [] kind = "scalar_element" -> "scalar"
                    [] OTHER -> "object",
     has_cost |-> kind # "missing_field",
     has_date |-> TRUE,
     cost     |-> IF kind = "non_numeric_cost" THEN [t |-> "text", v |-> I(0)]
                  ELSE [t |-> "number", v |-> I(10)],
     date     |-> IF kind = "bad_date" THEN [t |-> "text", day |-> 0]
                  ELSE [t |-> "date", day |-> 0]]

\* the daily cost series the histories are built from
Patterns == {"flat1000", "flat_milli", "zero", "ramp", "falling", "weekend", "refund"}

\* the series a least-squares line fits exactly
LinearPatterns == {"flat1000", "flat_milli", "zero", "ramp", "falling"}

PatternCost(pattern, day) ==
    CASE pattern = "flat1000"   -> I(1000)
      [] pattern = "flat_milli" -> Q(1, 1000)
      [] pattern = "zero"       -> I(0)
      [] pattern = "ramp"       -> I(10 + day)
      [] pattern = "falling"    -> I(20 - 2 * day)
      [] pattern = "weekend"    -> IF day % 7 \in {5, 6} THEN I(13) ELSE I(10)
      [] pattern = "refund"     -> IF day = 3 THEN I(-50) ELSE I(10)
      [] pattern = "linear100"  -> I(100 + 10 * day)
      [] pattern = "weekend1300" -> IF day % 7 \in {5, 6} THEN I(1300) ELSE I(1000)
      [] pattern = "burst"      -> IF day < 2 THEN I(2) ELSE I(1)
      [] pattern = "decline"    -> I(300 - 10 * day)

\* n consecutive days from day 0, oldest first
Series(n, pattern) == [k \in 1..n |-> Point(k - 1, PatternCost(pattern, k - 1))]

Reverse(xs) == [k \in 1..Len(xs) |-> xs[Len(xs) + 1 - k]]

\* the second element re-dated to the day of the first
Redated(xs) ==
    [k \in 1..Len(xs) |-> IF k = 2 THEN Point(xs[1].date.day, xs[2].cost.v) ELSE xs[k]]

\* up to MaxJunk malformed elements of one kind
JunkSeqs ==
    {<<>>} \cup { [k \in 1..j |-> Malformed(kind)] : j \in 1..MaxJunk, kind \in JunkKinds }

\* the arrays handed to a tool whose minimum is `min`
Histories(min, patterns) ==
    LET plain == { Series(n, p) : n \in (min - 1)..(min + MaxExtra), p \in patterns }
        ordered == plain \cup { Reverse(xs) : xs \in plain }
    IN  { JsonArray(j \o xs) : j \in JunkSeqs, xs \in ordered }
        \cup { JsonArray(xs \o j) : j \in JunkSeqs, xs \in ordered }
        \cup { JsonArray(Redated(xs)) : xs \in plain }

\* the flat $1000 month of the round-trip scenario
FlatMonth == JsonArray(Series(30, "flat1000"))

\* five weeks of 1000 on Monday-Friday and 1300 on Saturday and Sunday,
\* starting on weekday `first`
WeekendWeeks(first) ==
    JsonArray([k \in 1..35 |-> Point(first + k - 1, PatternCost("weekend1300", first + k - 1))])

DefaultWindowDays == 30

\* a fortnight of $1 a day after two days of $2
BurstFortnight == JsonArray(Series(14, "burst"))

BaselineHistories ==
    Histories(MinBaselinePoints, Patterns) \cup {FlatMonth, BurstFortnight}

WindowDays == {6, 14, 30, 60}

\* the fortnight of cost = 100 + 10 * day
LinearFortnight == JsonArray(Series(14, "linear100"))

\* the fortnight of cost = 300 - 10 * day
DecliningFortnight == JsonArray(Series(14, "decline"))

TrendHistories ==
    Histories(MinTrendPoints, Patterns) \cup {LinearFortnight, DecliningFortnight}

\* (lookback_days, min_slope_threshold)
TrendParameters == {<<14, I(5)>>, <<7, I(0)>>, <<6, I(5)>>, <<14, I(-1)>>}

ForecastHistories == Histories(MinForecastPoints, LinearPatterns)

\* (forecast_days, confidence_level)
ForecastParameters ==
    {<<30, Q(80, 100)>>, <<3, Q(95, 100)>>, <<0, Q(80, 100)>>, <<91, Q(80, 100)>>,
     <<30, Q(1, 2)>>}

\* the action types handed to ValidateAction; "reboot" is not a valid one
ActionTypes ==
    {"terminate_instance", "delete_resource", "migrate", "downsize", "modify_tags",
     "upsize", "reboot"}

\* target_resource: tags, with or without cost_impact and environment
Resources ==
    { [kind |-> "object",
       keys |-> {"resource_id", "resource_type", "tags"}
                    \cup (IF c[1] THEN {"cost_impact"} ELSE {})
                    \cup (IF e[1] THEN {"environment"} ELSE {}),
       resource_id |-> "r1", resource_type |-> "vm",
       tags |-> t, cost_impact |-> c[2], environment |-> e[2]] :
        t \in { {}, {<<"owner", "team">>}, {<<"owner", "">>},
                {<<"Critical", "yes">>, <<"owner", "team">>} },
        c \in { <<FALSE, 0>>, <<TRUE, 150>>, <<TRUE, 1000>>, <<TRUE, 1001>> },
        e \in { <<FALSE, "unknown">>, <<TRUE, "production">> } }
    \cup
    { [kind |-> k[1], keys |-> k[2], resource_id |-> "r1", resource_type |-> "vm",
       tags |-> {}, cost_impact |-> 0, environment |-> "unknown"] :
        k \in { <<"invalid", {}>>, <<"object", {"resource_id"}>> } }

\* policies: what LoadBudgetPolicies hands over
PolicySets ==
    LET director == [keys |-> {"actions", "environments", "approval_level",
                               "waiting_period_hours"},
                     actions |-> {"delete_resource", "terminate_instance"},
                     environments |-> {"production"},
                     approval_level |-> "director", waiting_period_hours |-> 24]
        manager  == [keys |-> {"actions"},
                     actions |-> {"all"}, environments |-> {},
                     approval_level |-> "", waiting_period_hours |-> 0]
        level(name, actions, keys, approval_required) ==
            [keys |-> keys, level |-> name, actions |-> actions,
             approval_required |-> approval_required]
        guarded    == [risk_levels |->
            << level("high", {"delete", "terminate"}, {"actions", "approval_required"}, TRUE),
               level("medium", {"scale_down", "stop"}, {"actions", "approval_required"}, FALSE),
               level("low", {"tag", "alert"}, {"actions", "approval_required"}, FALSE) >>]
        permissive == [risk_levels |->
            << level("high", {"terminate", "delete", "migrate"}, {}, FALSE),
               level("medium", {"downsize"}, {"actions", "approval_required"}, FALSE),
               level("low", {"modify", "upsize"}, {"actions", "approval_required"}, FALSE) >>]
        tagging  == [keys |-> {"rule", "required_tags"},
                     rule |-> "all_resources_must_have_tags",
                     required_tags |-> <<"owner">>]
    IN  { [kind |-> "object", keys |-> {"policies"},
           policies |-> [approval |-> ap, automation |-> au, compliance |-> co]] :
            ap \in {<<>>, <<director>>, <<manager>>},
            au \in {<<>>, <<guarded>>, <<permissive>>},
            co \in {<<>>, <<tagging>>} }
        \cup
        { [kind |-> k, keys |-> {},
           policies |-> [approval |-> <<>>, automation |-> <<>>, compliance |-> <<>>]] :
            k \in {"invalid", "object"} }

\* the action a caller composes for ApproveAutomation
Action(atype, cost, env, validation_result) ==
    [kind |-> "object",
     keys |-> {"action_type", "resource_id", "cost_impact"}
                \cup (IF env = "unknown" THEN {} ELSE {"environment"})
                \cup (IF validation_result = NoValidation THEN {}
                      ELSE {"validation_result"}),
     action_type |-> atype, resource_id |-> "r1", cost_impact |-> cost,
     environment |-> env, validation_result |-> validation_result]

\* hand-written actions: with and without a validation_result, which may
\* carry is_valid, approval_status and compliance_score of its own
Actions ==
    LET verdict(keys, is_valid, approval_status, compliance_score) ==
            [NoValidation EXCEPT !.keys = keys, !.is_valid = is_valid,
                                 !.approval_status = approval_status,
                                 !.compliance_score = compliance_score]
        all == {"is_valid", "approval_status", "compliance_score"}
        verdicts ==
            { NoValidation,
              verdict({"is_valid", "compliance_score"}, TRUE, "", 95),
              verdict(all, FALSE, "blocked", 95),
              verdict(all, FALSE, "blocked", 80),
              verdict({"is_valid", "approval_status"}, FALSE, "blocked", 0) }
    IN  { Action(atype, cost, env, v) :
            atype \in {"modify_tags", "downsize", "terminate_instance"},
            cost \in {-5, 0, 50, 600, 1000},
            env \in {"unknown", "production"},
            v \in verdicts }
        \cup { [Action("downsize", 50, "unknown", NoValidation) EXCEPT !.kind = "invalid"],
               [Action("downsize", 0, "unknown", NoValidation)
                    EXCEPT !.keys = {"action_type", "resource_id"}] }

\* normalized_data: the records NormalizeCostData hands over
NormalizedData ==
    LET record(keys, provider, service, cost) ==
            [keys |-> keys, provider |-> provider, service |-> service,
             time_period_start |-> "2025-12-17", cost |-> cost]
        full == {"provider", "service", "time_period_start", "cost"}
        ec2(cost)  == record(full, "aws", "ec2", cost)
        unnamed    == record(full, "aws", Null, 10)
        orphan     == record(full, Null, "ec2", 10)
        bare       == record({"provider", "cost"}, "aws", "", 10)
        lists == { <<ec2(10)>>, <<ec2(20)>>, <<unnamed>>, <<bare>>,
                   <<ec2(10), ec2(20)>>, <<orphan, ec2(10)>>, <<>> }
    IN  { [kind |-> "object", keys |-> {"records"}, records |-> l] : l \in lists }
        \cup { [kind |-> k, keys |-> {}, records |-> <<>>] : k \in {"invalid", "object"} }

MaxCalls == 2

\* the calls made on the cache: (normalized_data, cache_key, ttl_hours)
CacheCalls ==
    { <<d, "aws_daily", 24>> : d \in NormalizedData }
        \cup { <<d, k[1], k[2]>> :
                d \in { n \in NormalizedData : n.records # <<>> /\ Len(n.records) = 1 },
                k \in { <<"gcp_daily", 24>>, <<"aws_daily", 1>>, <<"k", 24>> } }

----------------------------------------------------------------------------
(* The state machine: a tool object is constructed with its inputs, then   *)
(* run() is called on it once.                                             *)

Tools == {"CalculateBaseline", "DetectSpike", "DetectTrendChange", "CreateForecast"}

NoBaselineTool ==
    /\ cost_history = NoHistory
    /\ window_days = 0
    /\ enable_seasonal_adjustment = FALSE
    /\ baseline_result = NoResult

NoSpikeTool ==
    /\ current_value = I(0)
    /\ baseline = NoBaseline
    /\ threshold_percent = I(0)
    /\ z_score_threshold = I(0)
    /\ spike_result = NoResult

NoTrendTool ==
    /\ trend_cost_history = NoHistory
    /\ lookback_days = 0
    /\ min_slope_threshold = I(0)
    /\ trend_result = NoResult

NoForecastTool ==
    /\ historical_data = NoHistory
    /\ forecast_days = 0
    /\ confidence_level = I(0)
    /\ forecast_result = NoResult

NoPolicyTools ==
    /\ action_type = ""
    /\ target_resource = [kind |-> "none"]
    /\ policies = [kind |-> "none"]
    /\ validate_result = NoResult
    /\ action = [kind |-> "none"]
    /\ risk_level = ""
    /\ auto_approve_threshold = 0
    /\ approve_result = NoResult

NoCacheTool ==
    /\ normalized_data = [kind |-> "none"]
    /\ cache_key = ""
    /\ ttl_hours = 0
    /\ cache_result = NoResult
    /\ cost_snapshots = {}
    /\ last_rowid = 0
    /\ clock = 0

NoAnalysisTools == NoBaselineTool /\ NoSpikeTool /\ NoTrendTool /\ NoForecastTool

InitBaseline ==
    /\ created = {"CalculateBaseline"}
    /\ cost_history \in BaselineHistories
    /\ window_days \in WindowDays
    /\ enable_seasonal_adjustment \in BOOLEAN
    /\ baseline_result = NoResult
    /\ NoSpikeTool /\ NoTrendTool /\ NoForecastTool
    /\ NoPolicyTools /\ NoCacheTool

\* the weekday / weekend scenario: window_days left at its default
InitWeekendBaseline ==
    /\ created = {"CalculateBaseline"}
    /\ \E first \in 0..6 : cost_history = WeekendWeeks(first)
    /\ window_days = DefaultWindowDays
    /\ enable_seasonal_adjustment \in BOOLEAN
    /\ baseline_result = NoResult
    /\ NoSpikeTool /\ NoTrendTool /\ NoForecastTool
    /\ NoPolicyTools /\ NoCacheTool

InitSpike ==
    /\ created = {"DetectSpike"}
    /\ current_value \in CurrentValues
    /\ baseline \in HandBaselines
    /\ threshold_percent \in ThresholdPercents
    /\ z_score_threshold \in ZScoreThresholds
    /\ spike_result = NoResult
    /\ NoBaselineTool /\ NoTrendTool /\ NoForecastTool
    /\ NoPolicyTools /\ NoCacheTool

InitTrend ==
    /\ created = {"DetectTrendChange"}
    /\ trend_cost_history \in TrendHistories
    /\ \E p \in TrendParameters : lookback_days = p[1] /\ min_slope_threshold = p[2]
    /\ trend_result = NoResult
    /\ NoBaselineTool /\ NoSpikeTool /\ NoForecastTool
    /\ NoPolicyTools /\ NoCacheTool

InitForecast ==
    /\ created = {"CreateForecast"}
    /\ historical_data \in ForecastHistories
    /\ \E p \in ForecastParameters : forecast_days = p[1] /\ confidence_level = p[2]
    /\ forecast_result = NoResult
    /\ NoBaselineTool /\ NoSpikeTool /\ NoTrendTool
    /\ NoPolicyTools /\ NoCacheTool

\* one instance of each tool, each with a series of its own, before any of
\* them has run: the calls may then be made in any order
InitConcurrent ==
    /\ created = Tools
    /\ cost_history \in {FlatMonth, JsonArray(Series(MinBaselinePoints, "ramp"))}
    /\ window_days \in {14, 30}
    /\ enable_seasonal_adjustment = TRUE
    /\ baseline_result = NoResult
    /\ current_value \in {I(100), I(130)}
    /\ baseline = BaselineObject(I(100), I(10), TRUE)
    /\ threshold_percent = DefaultThresholdPercent
    /\ z_score_threshold = DefaultZScoreThreshold
    /\ spike_result = NoResult
    /\ trend_cost_history = LinearFortnight
    /\ \E p \in {<<14, I(5)>>, <<7, I(0)>>} :
            lookback_days = p[1] /\ min_slope_threshold = p[2]
    /\ trend_result = NoResult
    /\ historical_data = JsonArray(Series(MinForecastPoints, "falling"))
    /\ \E p \in {<<30, Q(80, 100)>>, <<3, Q(95, 100)>>} :
            forecast_days = p[1] /\ confidence_level = p[2]
    /\ forecast_result = NoResult
    /\ NoPolicyTools /\ NoCacheTool

InitValidate ==
    /\ created = {"ValidateAction"}
    /\ action_type \in ActionTypes
    /\ target_resource \in Resources
    /\ policies \in PolicySets
    /\ validate_result = NoResult
    /\ action = [kind |-> "none"]
    /\ risk_level = ""
    /\ auto_approve_threshold = 0
    /\ approve_result = NoResult
    /\ NoAnalysisTools /\ NoCacheTool

InitApprove ==
    /\ created = {"ApproveAutomation"}
    /\ action \in Actions
    /\ risk_level \in {"LOW", "MEDIUM", "HIGH", "CRITICAL", "low"}
    /\ auto_approve_threshold \in {-1, 0, 100, 1000}
    /\ approve_result = NoResult
    /\ action_type = ""
    /\ target_resource = [kind |-> "none"]
    /\ policies = [kind |-> "none"]
    /\ validate_result = NoResult
    /\ NoAnalysisTools /\ NoCacheTool

\* an empty cost_cache.db and no tool yet
InitCache ==
    /\ created = {}
    /\ NoAnalysisTools /\ NoPolicyTools /\ NoCacheTool

Init ==
    \/ InitBaseline
    \/ InitWeekendBaseline
    \/ InitSpike
    \/ InitTrend
    \/ InitForecast
    \/ InitConcurrent
    \/ InitValidate
    \/ InitApprove
    \/ InitCache

\* CalculateBaseline.run(), which also overwrites self.window_days
RunCalculateBaseline ==
    /\ "CalculateBaseline" \in created
    /\ baseline_result = NoResult
    /\ baseline_result' = CalculateBaseline(cost_history, window_days,
                                            enable_seasonal_adjustment)
    /\ window_days' = ClampedWindow(cost_history, window_days)
    /\ UNCHANGED <<created, cost_history, enable_seasonal_adjustment,
                   spike_vars, trend_vars, forecast_vars,
                   policy_vars, cache_vars>>

\* the caller hands the baseline document to a new DetectSpike, with the
\* default thresholds
ChainDetectSpike ==
    /\ "DetectSpike" \notin created
    /\ baseline_result.status = "ok"
    /\ created' = created \cup {"DetectSpike"}
    /\ current_value' \in CurrentValues
    /\ baseline' = BaselineJson(baseline_result)
    /\ threshold_percent' = DefaultThresholdPercent
    /\ z_score_threshold' = DefaultZScoreThreshold
    /\ UNCHANGED <<spike_result, baseline_vars, trend_vars, forecast_vars,
                   policy_vars, cache_vars>>

RunDetectSpike ==
    /\ "DetectSpike" \in created
    /\ spike_result = NoResult
    /\ spike_result' = DetectSpike(current_value, baseline, threshold_percent,
                                   z_score_threshold)
    /\ UNCHANGED <<created, current_value, baseline, threshold_percent,
                   z_score_threshold, baseline_vars, trend_vars, forecast_vars,
                   policy_vars, cache_vars>>

\* run() reading the series of the CalculateBaseline instance
RunDetectTrendChangeOnSharedSeries ==
    /\ "DetectTrendChange" \in created
    /\ trend_result = NoResult
    /\ trend_result' = DetectTrendChange(cost_history, lookback_days,
                                         min_slope_threshold)
    /\ UNCHANGED <<created, trend_cost_history, lookback_days, min_slope_threshold,
                   baseline_vars, spike_vars, forecast_vars,
                   policy_vars, cache_vars>>

RunDetectTrendChange ==
    /\ "DetectTrendChange" \in created
    /\ trend_result = NoResult
    /\ trend_result' = DetectTrendChange(trend_cost_history, lookback_days,
                                         min_slope_threshold)
    /\ UNCHANGED <<created, trend_cost_history, lookback_days, min_slope_threshold,
                   baseline_vars, spike_vars, forecast_vars,
                   policy_vars, cache_vars>>

RunCreateForecast ==
    /\ "CreateForecast" \in created
    /\ forecast_result = NoResult
    /\ forecast_result' = CreateForecast(historical_data, forecast_days,
                                         confidence_level)
    /\ UNCHANGED <<created, historical_data, forecast_days, confidence_level,
                   baseline_vars, spike_vars, trend_vars,
                   policy_vars, cache_vars>>

RunValidateAction ==
    /\ "ValidateAction" \in created
    /\ validate_result = NoResult
    /\ validate_result' = ValidateAction(action_type, target_resource, policies)
    /\ UNCHANGED <<created, action_type, target_resource, policies,
                   action, risk_level, auto_approve_threshold, approve_result,
                   baseline_vars, spike_vars, trend_vars, forecast_vars, cache_vars>>

\* the caller hands the validated action, with the document ValidateAction
\* returned and the risk level it assessed, to a new ApproveAutomation
ChainApproveAutomation ==
    /\ "ApproveAutomation" \notin created
    /\ validate_result.status = "ok"
    /\ created' = created \cup {"ApproveAutomation"}
    /\ action' = Action(action_type, Get(target_resource, "cost_impact", 0),
                        Get(target_resource, "environment", "unknown"),
                        ValidationJson(validate_result))
    /\ risk_level' = validate_result.risk_level
    /\ auto_approve_threshold' \in {0, 100}
    /\ UNCHANGED <<action_type, target_resource, policies, validate_result,
                   approve_result,
                   baseline_vars, spike_vars, trend_vars, forecast_vars, cache_vars>>

RunApproveAutomation ==
    /\ "ApproveAutomation" \in created
    /\ approve_result = NoResult
    /\ approve_result' = ApproveAutomation(action, risk_level, auto_approve_threshold)
    /\ UNCHANGED <<created, action_type, target_resource, policies, validate_result,
                   action, risk_level, auto_approve_threshold,
                   baseline_vars, spike_vars, trend_vars, forecast_vars, cache_vars>>

\* a new CacheCostSnapshot is constructed, an hour after the one before it
NewCacheCostSnapshot ==
    /\ created \subseteq {"CacheCostSnapshot"}
    /\ "CacheCostSnapshot" \in created => cache_result # NoResult
    /\ clock < MaxCalls
    /\ created' = {"CacheCostSnapshot"}
    /\ \E call \in CacheCalls :
            /\ normalized_data' = call[1]
            /\ cache_key' = call[2]
            /\ ttl_hours' = call[3]
    /\ cache_result' = NoResult
    /\ clock' = clock + 1
    /\ UNCHANGED <<cost_snapshots, last_rowid,
                   baseline_vars, spike_vars, trend_vars, forecast_vars, policy_vars>>

RunCacheCostSnapshot ==
    /\ "CacheCostSnapshot" \in created
    /\ cache_result = NoResult
    /\ LET out == CacheCostSnapshot(normalized_data, cache_key, ttl_hours,
                        [rows |-> cost_snapshots, last_rowid |-> last_rowid,
                         inserted |-> <<>>],
                        clock)
       IN  /\ cache_result' = out.result
           /\ cost_snapshots' = out.db.rows
           /\ last_rowid' = out.db.last_rowid
    /\ UNCHANGED <<created, normalized_data, cache_key, ttl_hours, clock,
                   baseline_vars, spike_vars, trend_vars, forecast_vars, policy_vars>>

Next ==
    \/ RunCalculateBaseline
    \/ ChainDetectSpike
    \/ RunDetectSpike
    \/ RunDetectTrendChange
    \/ RunCreateForecast
    \/ RunValidateAction
    \/ ChainApproveAutomation
    \/ RunApproveAutomation
    \/ NewCacheCostSnapshot
    \/ RunCacheCostSnapshot

Spec == Init /\ [][Next]_vars

----------------------------------------------------------------------------
(* What the properties below read off a state                              *)

IsValid(e) == EntryOutcome(e) = "valid"

\* the elements of the array that are well-formed observations, in array order
ValidItems(items) == SelectSeq(items, IsValid)

ValidCount(items) == Len(ValidItems(items))

Dates(items) == { items[k].date.day : k \in 1..Len(items) }

Ran(result) == result.status # "none"

InsufficientData(result) ==
    /\ result.status = "error"
    /\ result.error \in {"Insufficient historical data",
                         "Insufficient data for trend analysis",
                         "Only N valid cost entries found",
                         "Only N valid data points after validation"}

\* the parameters other than the history are in their documented ranges
LegalBaselineCall == window_days >= MinWindowDays

LegalTrendCall == lookback_days >= MinLookbackDays /\ RGe(min_slope_threshold, I(0))

LegalForecastCall ==
    /\ forecast_days >= 1
    /\ forecast_days <= MaxForecastDays
    /\ confidence_level \in ValidConfidenceLevels

\* DetectSpike was given the document CalculateBaseline returned
Chained == baseline_result.status = "ok" /\ baseline = BaselineJson(baseline_result)

StrictlyAscending(points) ==
    \A k \in 1..(Len(points) - 1) : points[k].date < points[k + 1].date

NonNegative(points) == \A k \in 1..Len(points) : RGe(points[k].cost, I(0))

----------------------------------------------------------------------------
(* C1: for every accepted DetectSpike call, is_spike is true iff the       *)
(* returned deviation_percent exceeds threshold_percent and the returned   *)
(* z_score exceeds z_score_threshold.                                      *)
C1_SpikeIffBothExceeded ==
    spike_result.status = "ok" =>
        (spike_result.is_spike <=>
            /\ RGt(spike_result.deviation_percent, threshold_percent)
            /\ RGt(spike_result.z_score, z_score_threshold))

(* C2: for a fixed baseline and thresholds is_spike is monotone in         *)
(* current_value: a spike at a is a spike at every accepted b >= a.        *)
C2_SpikeMonotone ==
    (spike_result.status = "ok" /\ spike_result.is_spike) =>
        \A b \in CurrentValues :
            RGe(b, current_value) =>
                LET r == DetectSpike(b, baseline, threshold_percent, z_score_threshold)
                IN  r.status = "ok" /\ r.is_spike

C2_Witness ==
    /\ spike_result.status = "ok"
    /\ spike_result.is_spike
    /\ baseline.std_deviation = I(0)
    /\ \E b \in CurrentValues : RGt(b, current_value)

(* C3: a history of at least 14 valid entries of one cost c gives          *)
(* std_deviation 0, and DetectSpike on that baseline gives z_score 0 for   *)
(* current_value = c and +infinity for any other accepted current_value.   *)
C3_FlatSeriesZScore ==
    LET valid == ValidItems(cost_history.items)
        flat  == /\ Len(valid) >= MinBaselinePoints
                 /\ \A k \in 1..Len(valid) : valid[k].cost.v = valid[1].cost.v
    IN  (flat /\ baseline_result.status = "ok") =>
            /\ baseline_result.std_deviation = I(0)
            /\ (Chained /\ spike_result.status = "ok") =>
                    spike_result.z_score =
                        IF current_value = valid[1].cost.v THEN I(0) ELSE Inf

(* C4: the flat $1000 month gives mean 1000, deviation 0 and               *)
(* ci95 = [1000, 1000]; DetectSpike on that baseline with current value    *)
(* 1000 and the default thresholds gives is_spike false and z_score 0.     *)
C4_FlatMonthRoundTrip ==
    (cost_history = FlatMonth /\ baseline_result.status = "ok") =>
        /\ baseline_result.baseline_mean = I(1000)
        /\ baseline_result.std_deviation = I(0)
        /\ baseline_result.confidence_intervals["95_percent"]
                = [lower |-> I(1000), upper |-> I(1000)]
        /\ (/\ Chained
            /\ current_value = I(1000)
            /\ threshold_percent = DefaultThresholdPercent
            /\ z_score_threshold = DefaultZScoreThreshold
            /\ Ran(spike_result)) =>
                /\ spike_result.status = "ok"
                /\ ~spike_result.is_spike
                /\ spike_result.z_score = I(0)

C4_Witness ==
    /\ cost_history = FlatMonth
    /\ baseline_result.status = "ok"
    /\ baseline_result.sample_size = 30
    /\ Chained
    /\ current_value = I(1000)
    /\ spike_result.status = "ok"

(* C5: with at least 14 valid entries, any window_days at or above the     *)
(* valid count returns without error exactly what window_days = valid      *)
(* count returns.                                                          *)
C5_WindowClampsToValidCount ==
    LET n == ValidCount(cost_history.items)
    IN  (Ran(baseline_result) /\ n >= MinBaselinePoints /\ window_days >= n) =>
            /\ baseline_result.status = "ok"
            /\ baseline_result =
                    CalculateBaseline(cost_history, n, enable_seasonal_adjustment)

(* C6: with legal parameters each series tool returns an insufficient-data *)
(* error iff fewer than 14 / 7 / 30 entries survive validation.            *)
C6_InsufficientIffValidCountBelowMinimum ==
    /\ (Ran(baseline_result) /\ LegalBaselineCall) =>
            (InsufficientData(baseline_result)
                <=> ValidCount(cost_history.items) < MinBaselinePoints)
    /\ (Ran(trend_result) /\ LegalTrendCall) =>
            (InsufficientData(trend_result)
                <=> ValidCount(trend_cost_history.items) < MinTrendPoints)
    /\ (Ran(forecast_result) /\ LegalForecastCall) =>
            (InsufficientData(forecast_result)
                <=> ValidCount(historical_data.items) < MinForecastPoints)

(* C7: a malformed element is skipped, never fatal: when enough valid      *)
(* entries remain the result is the one for the array without the          *)
(* malformed elements.                                                     *)
C7_MalformedEntriesSkipped ==
    /\ (Ran(baseline_result)
            /\ ValidCount(cost_history.items) >= MinBaselinePoints) =>
        baseline_result =
            CalculateBaseline(JsonArray(ValidItems(cost_history.items)),
                              window_days, enable_seasonal_adjustment)
    /\ (Ran(trend_result)
            /\ ValidCount(trend_cost_history.items) >= MinTrendPoints) =>
        trend_result =
            DetectTrendChange(JsonArray(ValidItems(trend_cost_history.items)),
                              lookback_days, min_slope_threshold)
    /\ (Ran(forecast_result)
            /\ ValidCount(historical_data.items) >= MinForecastPoints) =>
        forecast_result =
            CreateForecast(JsonArray(ValidItems(historical_data.items)),
                           forecast_days, confidence_level)

(* C8: the order of the array does not matter: for valid entries with      *)
(* pairwise distinct dates the result equals the result for the reversed   *)
(* array, and the baseline window holds the window_days latest dates.      *)
C8_OrderOfArrayIrrelevant ==
    LET distinct(items) ==
            /\ ValidCount(items) = Len(items)
            /\ Cardinality(Dates(items)) = Len(items)
    IN  /\ (Ran(baseline_result) /\ distinct(cost_history.items)) =>
            /\ baseline_result =
                    CalculateBaseline(JsonArray(Reverse(cost_history.items)),
                                      window_days, enable_seasonal_adjustment)
            /\ baseline_result.status = "ok" =>
                    LET w == BaselineWindow(cost_history, window_days)
                    IN  \A k \in 1..Len(w) :
                            \A d \in Dates(cost_history.items) :
                                d > w[k].date => \E j \in 1..Len(w) : w[j].date = d
        /\ (Ran(trend_result) /\ distinct(trend_cost_history.items)) =>
            trend_result =
                DetectTrendChange(JsonArray(Reverse(trend_cost_history.items)),
                                  lookback_days, min_slope_threshold)
        /\ (Ran(forecast_result) /\ distinct(historical_data.items)) =>
            forecast_result =
                CreateForecast(JsonArray(Reverse(historical_data.items)),
                               forecast_days, confidence_level)

(* C9: the series a tool computes on has strictly ascending dates (one     *)
(* observation per date), so sample_size / days_analyzed never exceed the  *)
(* number of distinct dates.                                               *)
C9_OneObservationPerDate ==
    /\ baseline_result.status = "ok" =>
        baseline_result.sample_size
            <= Cardinality(Dates(ValidItems(cost_history.items)))
    /\ trend_result.status = "ok" =>
        /\ StrictlyAscending(TrendData(trend_cost_history, lookback_days))
        /\ trend_result.days_analyzed
            <= Cardinality(Dates(ValidItems(trend_cost_history.items)))
    /\ forecast_result.status = "ok" =>
        /\ StrictlyAscending(ForecastData(historical_data))
        /\ forecast_result.days_analyzed
            <= Cardinality(Dates(ValidItems(historical_data.items)))

(* C10: every cost a baseline, a trend fit or a forecast is computed from  *)
(* is >= 0.                                                                *)
C10_AnalysedCostsNonNegative ==
    /\ baseline_result.status = "ok" =>
        NonNegative(BaselineWindow(cost_history, window_days))
    /\ trend_result.status = "ok" =>
        NonNegative(TrendData(trend_cost_history, lookback_days))
    /\ forecast_result.status = "ok" =>
        NonNegative(ForecastData(historical_data))

(* C11: for every accepted DetectSpike call, a current value below the     *)
(* baseline mean included, the returned confidence lies in 0..100.         *)
C11_ConfidenceInRange ==
    spike_result.status = "ok" =>
        /\ RGe(spike_result.confidence, I(0))
        /\ RLe(spike_result.confidence, I(100))

(* C12: zero mean and zero deviation are never errors: a history of enough *)
(* valid entries of one cost (zero included) makes CalculateBaseline,      *)
(* DetectTrendChange and CreateForecast return a result, and DetectSpike   *)
(* returns a result for a baseline with mean 0 or deviation 0.             *)
C12_NumericEdgeCasesNeverErrors ==
    LET flat(items, min) ==
            /\ Len(items) >= min
            /\ ValidCount(items) = Len(items)
            /\ \A k \in 1..Len(items) : items[k].cost.v = items[1].cost.v
    IN  /\ (Ran(baseline_result) /\ LegalBaselineCall
                /\ flat(cost_history.items, MinBaselinePoints)) =>
            baseline_result.status = "ok"
        /\ (Ran(trend_result) /\ LegalTrendCall
                /\ flat(trend_cost_history.items, MinTrendPoints)) =>
            trend_result.status = "ok"
        /\ (Ran(forecast_result) /\ LegalForecastCall
                /\ flat(historical_data.items, MinForecastPoints)) =>
            forecast_result.status = "ok"
        /\ (/\ Ran(spike_result)
            /\ RGe(current_value, I(0))
            /\ RGt(threshold_percent, I(0))
            /\ RGt(z_score_threshold, I(0))
            /\ baseline.kind = "object"
            /\ baseline.has_mean /\ baseline.has_std
            /\ (baseline.baseline_mean = I(0) \/ baseline.std_deviation = I(0))) =>
            spike_result.status = "ok"

(* C13: run() of every tool returns a value, a result or an error value,   *)
(* whatever JSON its text input decodes to; no exception leaves run().     *)
C13_RunNeverRaises ==
    /\ baseline_result.status # "raised"
    /\ spike_result.status # "raised"
    /\ trend_result.status # "raised"
    /\ forecast_result.status # "raised"

(* C14: for every accepted DetectTrendChange call, min_slope_threshold = 0 *)
(* included, the direction is stable iff |slope| < min_slope_threshold,    *)
(* increasing only when slope > 0 and decreasing only when slope < 0.      *)
C14_DirectionFollowsSlope ==
    trend_result.status = "ok" =>
        LET slope == LinearFit(Costs(TrendData(trend_cost_history, lookback_days))).slope
            direction == trend_result.trend_direction
        IN  /\ direction = "stable" <=> RLt(RAbs(slope), min_slope_threshold)
            /\ direction = "increasing" => RGt(slope, I(0))
            /\ direction = "decreasing" => RLt(slope, I(0))

(* C15: the series cost = 100 + 10 * day over 14 days, with the default    *)
(* lookback 14 and slope threshold 5, gives slope 10, R squared 1,         *)
(* direction increasing, a 30-day projection of 300 and is_significant;    *)
(* and every series on consecutive days that rises by a constant s each    *)
(* day is fitted with slope s, and with R squared 1 when s is not 0.       *)
C15_LinearSeriesFit ==
    /\ (/\ trend_cost_history = LinearFortnight
        /\ lookback_days = 14
        /\ min_slope_threshold = I(5)
        /\ Ran(trend_result)) =>
            /\ trend_result.status = "ok"
            /\ trend_result.slope = I(10)
            /\ trend_result.r_squared = I(1)
            /\ trend_result.trend_direction = "increasing"
            /\ trend_result.projections[30] = I(300)
            /\ trend_result.is_significant
    /\ trend_result.status = "ok" =>
        LET data == TrendData(trend_cost_history, lookback_days)
            s    == RSub(data[2].cost, data[1].cost)
            linear ==
                \A k \in 1..(Len(data) - 1) :
                    /\ data[k + 1].date = data[k].date + 1
                    /\ RSub(data[k + 1].cost, data[k].cost) = s
            fit  == LinearFit(Costs(data))
        IN  linear =>
                /\ fit.slope = s
                /\ trend_result.slope = s
                /\ s # I(0) => (fit.r_squared = I(1) /\ trend_result.r_squared = I(1))

C15_Witness ==
    /\ trend_cost_history = LinearFortnight
    /\ lookback_days = 14
    /\ min_slope_threshold = I(5)
    /\ trend_result.status = "ok"
    /\ trend_result.days_analyzed = 14

(* C16: a successful CreateForecast result holds exactly one forecast      *)
(* point for each offset d = 1..forecast_days, on the d-th day after the   *)
(* last historical date, with point estimate slope * (n + d - 1) +         *)
(* intercept, n the number of valid historical points.                     *)
C16_OnePointPerOffset ==
    forecast_result.status = "ok" =>
        LET data == ForecastData(historical_data)
            n    == Len(data)
            fit  == LinearFit(Costs(data))
        IN  /\ Len(forecast_result.forecasts) = forecast_days
            /\ \A d \in 1..forecast_days :
                /\ d \in DOMAIN forecast_result.forecasts
                /\ forecast_result.forecasts[d].day_offset = d
                /\ forecast_result.forecasts[d].date = data[n].date + d
                /\ forecast_result.forecasts[d].forecast_cost =
                        RAdd(RMul(fit.slope, I(n + d - 1)), fit.intercept)

(* C17: for every accepted CreateForecast input, a constant series        *)
(* included, the interval width strictly increases with the offset:        *)
(* width(d1) < width(d2) for all 1 <= d1 < d2 <= forecast_days.            *)
C17_IntervalWidthStrictlyIncreasing ==
    forecast_result.status = "ok" =>
        LET std_dev == Stdev(Costs(ForecastData(historical_data)))
            z_score == ZLookup(confidence_level)
            growth(d1, d2) == RSub(IntervalWidth(z_score, std_dev, d2),
                                   IntervalWidth(z_score, std_dev, d1))
        IN  \A d1, d2 \in 1..forecast_days : d1 < d2 => RGt(growth(d1, d2), I(0))

(* C18: a call of run() never changes the tool's input parameters: the     *)
(* step in which a tool's result appears leaves cost_history, window_days  *)
(* and enable_seasonal_adjustment of CalculateBaseline as they were, and   *)
(* likewise the inputs of DetectSpike, DetectTrendChange, CreateForecast.  *)
C18_RunLeavesInputsUnchanged ==
    [][ /\ baseline_result' # baseline_result =>
                UNCHANGED <<cost_history, window_days, enable_seasonal_adjustment>>
        /\ spike_result' # spike_result =>
                UNCHANGED <<current_value, baseline, threshold_percent, z_score_threshold>>
        /\ trend_result' # trend_result =>
                UNCHANGED <<trend_cost_history, lookback_days, min_slope_threshold>>
        /\ forecast_result' # forecast_result =>
                UNCHANGED <<historical_data, forecast_days, confidence_level>> ]_vars

C20_SeverityByDeviationAlone ==
    spike_result.status = "ok" =>
        LET deviation(cur) ==
                PercentTest(cur, baseline.baseline_mean, threshold_percent).deviation_percent
            level(sev) ==
                CASE sev = "NONE" -> 0 [] sev = "LOW" -> 1 [] sev = "MEDIUM" -> 2
                  [] sev = "HIGH" -> 3 [] sev = "CRITICAL" -> 4
            dev == deviation(current_value)
        IN  /\ spike_result.severity = "NONE"     <=> RLe(dev, I(20))
            /\ spike_result.severity = "LOW"      <=> RGt(dev, I(20)) /\ RLe(dev, I(35))
            /\ spike_result.severity = "MEDIUM"   <=> RGt(dev, I(35)) /\ RLe(dev, I(50))
            /\ spike_result.severity = "HIGH"     <=> RGt(dev, I(50)) /\ RLe(dev, I(100))
            /\ spike_result.severity = "CRITICAL" <=> RGt(dev, I(100))
            /\ \A thr \in ThresholdPercents, zthr \in ZScoreThresholds :
                    LET r == DetectSpike(current_value, baseline, thr, zthr)
                    IN  r.status = "ok" => r.severity = spike_result.severity
            /\ \A b \in CurrentValues :
                    LET r == DetectSpike(b, baseline, threshold_percent, z_score_threshold)
                    IN  (r.status = "ok" /\ RGe(RSub(deviation(b), dev), I(0)))
                            => level(r.severity) >= level(spike_result.severity)

C20_Witness ==
    /\ spike_result.status = "ok"
    /\ spike_result.severity = "HIGH"
    /\ spike_result.deviation_percent = I(100)
    /\ ~spike_result.is_spike
    /\ baseline.baseline_mean = I(100)

(* C21: five weeks of consecutive dates costing 1000 on Monday-Friday and *)
(* 1300 on Saturday and Sunday, seasonal adjustment on, default window:    *)
(* the Saturday and Sunday factors are above 1.0 and each Monday-Friday    *)
(* factor is within 0.05 of 1.0.                                           *)
C21_WeekdayFactorsWithinFiveHundredths ==
    (/\ \E first \in 0..6 : cost_history = WeekendWeeks(first)
     /\ window_days = DefaultWindowDays
     /\ enable_seasonal_adjustment
     /\ Ran(baseline_result)) =>
        /\ baseline_result.status = "ok"
        /\ \A d \in {5, 6} : RGt(baseline_result.seasonal_factors[d], I(1))
        /\ \A d \in 0..4 :
            RLe(RAbs(RSub(baseline_result.seasonal_factors[d], I(1))), Q(5, 100))

(* C21, amended: in that scenario the Saturday and Sunday factors are      *)
(* above 1.0 (1.18 to 1.21) and the Monday-Friday factors are equal and    *)
(* below 1.0, within 0.1 of it (0.90 to 0.93), because the mean they are   *)
(* divided by includes the weekend days.                                   *)
C21_WeekendAboveWeekdayBelowOne ==
    (/\ \E first \in 0..6 : cost_history = WeekendWeeks(first)
     /\ window_days = DefaultWindowDays
     /\ enable_seasonal_adjustment
     /\ Ran(baseline_result)) =>
        /\ baseline_result.status = "ok"
        /\ \A d \in {5, 6} :
            /\ RGe(baseline_result.seasonal_factors[d], Q(118, 100))
            /\ RLe(baseline_result.seasonal_factors[d], Q(121, 100))
        /\ \A d \in 0..4 :
            /\ baseline_result.seasonal_factors[d] = baseline_result.seasonal_factors[0]
            /\ RGe(baseline_result.seasonal_factors[d], Q(90, 100))
            /\ RLe(baseline_result.seasonal_factors[d], Q(93, 100))
            /\ RGt(RAbs(RSub(baseline_result.seasonal_factors[d], I(1))), Q(5, 100))

C21_Witness ==
    /\ cost_history = WeekendWeeks(2)
    /\ window_days = DefaultWindowDays
    /\ enable_seasonal_adjustment
    /\ baseline_result.status = "ok"
    /\ baseline_result.sample_size = 30
    /\ baseline_result.seasonal_factors[5] = Q(1204, 1000)
    /\ baseline_result.seasonal_factors[0] = Q(926, 1000)

(* C25: every forecast point CreateForecast produces satisfies            *)
(* lower bound <= point estimate <= upper bound, for every accepted        *)
(* series, steeply decreasing ones whose fitted line falls below zero      *)
(* within the horizon included.                                            *)
C25_BoundsBracketPointEstimate ==
    forecast_result.status = "ok" =>
        \A d \in DOMAIN forecast_result.forecasts :
            LET f == forecast_result.forecasts[d]
            IN  /\ RGe(RSub(f.forecast_cost, f.lower), I(0))
                /\ RGe(RSub(f.upper, f.forecast_cost), I(0))

(* C26: every spike DetectSpike reports carries a severity TriggerAlert    *)
(* accepts: for every accepted threshold_percent > 0 and                   *)
(* z_score_threshold > 0, is_spike = TRUE implies severity is LOW, MEDIUM, *)
(* HIGH or CRITICAL, never NONE.                                           *)
C26_SpikeHasAlertableSeverity ==
    (/\ spike_result.status = "ok"
     /\ RGt(threshold_percent, I(0)) /\ RGt(z_score_threshold, I(0))
     /\ spike_result.is_spike)
        => spike_result.severity \in valid_severities

(* C27: the two cross-checks of a spike agree: when the baseline given to  *)
(* DetectSpike is the output of CalculateBaseline and z_score_threshold    *)
(* >= 2, is_spike = TRUE implies within_95_percent = FALSE, and            *)
(* within_95_percent = TRUE always implies within_99_percent = TRUE.       *)
C27_SpikeOutsideInterval ==
    (Chained /\ spike_result.status = "ok" /\ RGe(z_score_threshold, I(2))) =>
        /\ spike_result.is_spike => ~spike_result.within_95_percent
        /\ spike_result.within_95_percent => spike_result.within_99_percent

(* C28: in every DetectTrendChange result, is_significant = TRUE implies   *)
(* the direction is not stable, the direction agrees with the sign of      *)
(* projection_30 (increasing iff projection_30 > 0), and |slope| > 100/30; *)
(* a series with all costs equal is never significant.                     *)
C28_SignificantTrendHasDirection ==
    trend_result.status = "ok" =>
        LET data  == TrendData(trend_cost_history, lookback_days)
            slope == LinearFit(Costs(data)).slope
        IN  /\ trend_result.is_significant =>
                /\ trend_result.trend_direction # "stable"
                /\ trend_result.trend_direction = "increasing"
                        <=> RGt(trend_result.projections[30], I(0))
                /\ trend_result.trend_direction = "decreasing"
                        <=> RLt(trend_result.projections[30], I(0))
                /\ RGt(RSub(RAbs(slope), Q(100, 30)), I(0))
                /\ RGe(RAbs(trend_result.slope), Round(Q(100, 30), 2))
            /\ (\A k \in 1..Len(data) : data[k].cost = data[1].cost)
                    => ~trend_result.is_significant

C28_Witness ==
    /\ trend_result.status = "ok"
    /\ trend_result.is_significant
    /\ trend_result.trend_direction = "decreasing"
    /\ trend_result.projections[30] = I(-300)
    /\ trend_cost_history = DecliningFortnight

(* C22: ApproveAutomation never approves an action that ValidateAction     *)
(* blocked: whenever the action's validation_result reports it invalid or  *)
(* blocked, the result has approved = FALSE, whatever the risk level, the  *)
(* cost impact and the auto-approve threshold.                             *)
C22_BlockedNeverApproved ==
    approve_result.status = "ok" =>
        LET v == Get(action, "validation_result", NoValidation)
            reported ==
                \/ "is_valid" \in v.keys /\ ~v.is_valid
                \/ "approval_status" \in v.keys /\ v.approval_status = "blocked"
                \/ /\ "validation_summary" \in v.keys
                   /\ \/ ~v.validation_summary.is_valid
                      \/ v.validation_summary.approval_status = "blocked"
        IN  reported => ~approve_result.approved

(* C23: with auto_approve_threshold = 0 ApproveAutomation requires manual  *)
(* approval for all actions: for every action and risk level the result    *)
(* has approved = FALSE and approval_method = manual_required.             *)
C23_ZeroThresholdIsManual ==
    (approve_result.status = "ok" /\ auto_approve_threshold = 0) =>
        /\ ~approve_result.approved
        /\ approve_result.approval_method = "manual_required"

(* C24: ValidateAction never returns approval_status = auto_approved for   *)
(* an action it assesses as HIGH risk (terminate_instance,                 *)
(* delete_resource, migrate, or cost_impact > 1000): for every policy set  *)
(* such an action is blocked, or requires_approval with Engineering        *)
(* Director among the required approvers.                                  *)
C24_HighRiskNeverAutoApproved ==
    (/\ validate_result.status = "ok"
     /\ \/ action_type \in {"terminate_instance", "delete_resource", "migrate"}
        \/ Get(target_resource, "cost_impact", 0) > 1000) =>
        /\ validate_result.approval_status # "auto_approved"
        /\ \/ validate_result.approval_status = "blocked"
           \/ /\ validate_result.approval_status = "requires_approval"
              /\ "Engineering Director" \in validate_result.required_approvers

C24_Witness ==
    /\ validate_result.status = "ok"
    /\ action_type = "migrate"
    /\ policies.policies.approval = <<>>
    /\ CheckAutomationPolicies(action_type, "HIGH", policies.policies.automation).can_automate
    /\ validate_result.risk_level = "HIGH"
    /\ validate_result.approval_status = "requires_approval"
    /\ validate_result.required_approvers = {"Engineering Director"}

(* C29: ValidateAction results are internally consistent: whenever         *)
(* approval_status = auto_approved, is_valid is TRUE and the violations    *)
(* list is empty; a resource failing a compliance policy is never          *)
(* auto_approved.                                                          *)
C29_AutoApprovedIsValid ==
    validate_result.status = "ok" =>
        /\ validate_result.approval_status = "auto_approved" =>
                validate_result.is_valid /\ validate_result.violations = <<>>
        /\ ~CheckCompliance(target_resource, policies.policies.compliance).is_compliant =>
                validate_result.approval_status # "auto_approved"

(* C30: after any sequence of CacheCostSnapshot calls the table holds at   *)
(* most one row per (cache_key, provider, service, time_period_start),     *)
(* that row carries the cost and the expiry of the most recent call that   *)
(* supplied the key, and caching records whose keys are all in the table   *)
(* already does not increase the number of rows.                           *)
C30_OneRowPerKey ==
    [][ (cache_result = NoResult /\ cache_result'.status = "ok") =>
            LET key(r) == <<r.cache_key, r.provider, r.service, r.time_period_start>>
                supplied(k) ==
                    LET record == normalized_data.records[k]
                    IN  <<cache_key, Get(record, "provider", "unknown"),
                          Get(record, "service", ""),
                          Get(record, "time_period_start", "")>>
                last(k) ==
                    CHOOSE j \in DOMAIN normalized_data.records :
                        /\ supplied(j) = supplied(k)
                        /\ \A i \in DOMAIN normalized_data.records :
                                supplied(i) = supplied(k) => i <= j
            IN  /\ \A r1, r2 \in cost_snapshots' : key(r1) = key(r2) => r1 = r2
                /\ \A r \in cost_snapshots', k \in DOMAIN normalized_data.records :
                        key(r) = supplied(k) =>
                            /\ r.cost = Get(normalized_data.records[last(k)], "cost", 0)
                            /\ r.expires_at = clock + ttl_hours
                /\ (\A k \in DOMAIN normalized_data.records :
                        \E r \in cost_snapshots : key(r) = supplied(k))
                        => Cardinality(cost_snapshots') <= Cardinality(cost_snapshots)
      ]_vars

====
